---- MODULE Spec2Model ----
(***************************************************************************)
(* Model of src/excel_mcp/server.py: the tool catalog (list_tools), the    *)
(* tool dispatcher (call_tool), the path resolver (get_excel_path) and the *)
(* resource reader (read_resource) running on one asyncio event loop.      *)
(*                                                                         *)
(* Encoding of Python values.  A value is a record [ty, v]: ty is the      *)
(* Python type ("str", "list", "bool", "none") and v a sequence: the       *)
(* characters (tokens) of a string, the items of a list, <<"1">> for True  *)
(* and << >> for False and None.  Python's truth test is then Len(v) > 0.  *)
(* A text is a sequence of tokens; concatenation is \o.                    *)
(***************************************************************************)
EXTENDS Integers, Sequences, FiniteSets, TLC

\* ------------------------------------------------------------------ values

PyStr(s) == [ty |-> "str", v |-> s]

PyList(s) == [ty |-> "list", v |-> s]

PyTrue == [ty |-> "bool", v |-> <<"1">>]

PyFalse == [ty |-> "bool", v |-> << >>]

PyNone == [ty |-> "none", v |-> << >>]

\* bool(x) as Python's `all([...])` and `not x` apply it.
Truthy(x) == Len(x.v) > 0

\* ---------------------------------------------------------- path resolver

\* EXCEL_FILES_PATH, the default "./excel_files" (server.py:57).
EXCEL_FILES_PATH == <<".", "/", "excel_files">>

\* os.path.isabs on POSIX: the string starts with "/".
IsAbs(s) == Len(s) > 0 /\ s[1] = "/"

\* os.path.join(a, b) on POSIX.
PathJoin(a, b) ==
  IF IsAbs(b) THEN b
  ELSE IF Len(a) = 0 \/ a[Len(a)] = "/" THEN a \o b
  ELSE a \o <<"/">> \o b

get_excel_path_always_joined(filename) ==
  EXCEL_FILES_PATH \o <<"/">> \o filename
\* get_excel_path(filename), on the characters of filename.
get_excel_path(filename) ==
  IF IsAbs(filename) THEN filename ELSE PathJoin(EXCEL_FILES_PATH, filename)

\* ------------------------------------------------------------ tool catalog

\* list_tools(): name, the modelled schema properties, the "required" list.
list_tools == <<
  [name |-> "apply_formula",
   properties |-> {"filepath", "sheet_name", "cell", "formula"},
   required |-> <<"filepath", "sheet_name", "cell", "formula">>],
  [name |-> "validate_formula_syntax",
   properties |-> {"filepath", "sheet_name", "cell", "formula"},
   required |-> <<"filepath", "sheet_name", "cell", "formula">>],
  [name |-> "format_range",
   properties |-> {"filepath", "sheet_name", "start_cell", "end_cell", "bold"},
   required |-> <<"filepath", "sheet_name", "start_cell">>],
  [name |-> "read_data_from_excel",
   properties |-> {"filepath", "sheet_name", "start_cell", "end_cell", "preview_only"},
   required |-> <<"filepath", "sheet_name">>],
  [name |-> "write_data_to_excel",
   properties |-> {"filepath", "sheet_name", "data", "start_cell", "write_headers"},
   required |-> <<"filepath", "sheet_name", "data">>],
  [name |-> "create_workbook",
   properties |-> {"filepath"},
   required |-> <<"filepath">>],
  [name |-> "create_worksheet",
   properties |-> {"filepath", "sheet_name"},
   required |-> <<"filepath", "sheet_name">>],
  [name |-> "create_chart",
   properties |-> {"filepath", "sheet_name", "data_range", "chart_type", "target_cell", "title"},
   required |-> <<"filepath", "sheet_name", "data_range", "chart_type", "target_cell">>],
  [name |-> "create_pivot_table",
   properties |-> {"filepath", "sheet_name", "data_range", "rows", "values", "columns", "agg_func"},
   required |-> <<"filepath", "sheet_name", "data_range", "rows", "values">>],
  [name |-> "copy_worksheet",
   properties |-> {"filepath", "source_sheet", "target_sheet"},
   required |-> <<"filepath", "source_sheet", "target_sheet">>],
  [name |-> "delete_worksheet",
   properties |-> {"filepath", "sheet_name"},
   required |-> <<"filepath", "sheet_name">>],
  [name |-> "rename_worksheet",
   properties |-> {"filepath", "old_name", "new_name"},
   required |-> <<"filepath", "old_name", "new_name">>],
  [name |-> "get_workbook_metadata",
   properties |-> {"filepath", "include_ranges"},
   required |-> <<"filepath">>],
  [name |-> "merge_cells",
   properties |-> {"filepath", "sheet_name", "start_cell", "end_cell"},
   required |-> <<"filepath", "sheet_name", "start_cell", "end_cell">>],
  [name |-> "unmerge_cells",
   properties |-> {"filepath", "sheet_name", "start_cell", "end_cell"},
   required |-> <<"filepath", "sheet_name", "start_cell", "end_cell">>],
  [name |-> "copy_range",
   properties |-> {"filepath", "sheet_name", "source_start", "source_end", "target_start", "target_sheet"},
   required |-> <<"filepath", "sheet_name", "source_start", "source_end", "target_start">>],
  [name |-> "delete_range",
   properties |-> {"filepath", "sheet_name", "start_cell", "end_cell", "shift_direction"},
   required |-> <<"filepath", "sheet_name", "start_cell", "end_cell">>],
  [name |-> "validate_excel_range",
   properties |-> {"filepath", "sheet_name", "start_cell", "end_cell"},
   required |-> <<"filepath", "sheet_name", "start_cell">>] >>

\* ------------------------------------------------- call_tool: the branches

\* Branches with the last elif lost.
BranchesWithoutLast == {
  "apply_formula", "validate_formula_syntax", "format_range",
  "read_data_from_excel", "write_data_to_excel", "create_workbook",
  "create_worksheet", "create_chart", "create_pivot_table", "copy_worksheet",
  "delete_worksheet", "rename_worksheet", "get_workbook_metadata",
  "merge_cells", "unmerge_cells", "copy_range", "delete_range" }

\* The names tested by the if/elif chain of call_tool.
Branches == {
  "apply_formula", "validate_formula_syntax", "format_range",
  "read_data_from_excel", "write_data_to_excel", "create_workbook",
  "create_worksheet", "create_chart", "create_pivot_table", "copy_worksheet",
  "delete_worksheet", "rename_worksheet", "get_workbook_metadata",
  "merge_cells", "unmerge_cells", "copy_range", "delete_range",
  "validate_excel_range" }

GetWithoutDefault(arguments, key, default) ==
  IF key \in DOMAIN arguments THEN arguments[key] ELSE PyNone
\* arguments.get(key, default) on an argument bag (a function on the keys present).
Get(arguments, key, default) ==
  IF key \in DOMAIN arguments THEN arguments[key] ELSE default

EmptyStr == PyStr(<< >>)

EmptyList == PyList(<< >>)

\* The default each branch gives to arguments.get for the argument it reads
\* (None for a bare arguments.get(key)); "filepath" is read by every branch.
Defaults(name) ==
  CASE name \in {"apply_formula", "validate_formula_syntax"} ->
         [filepath |-> EmptyStr, sheet_name |-> EmptyStr, cell |-> EmptyStr,
          formula |-> EmptyStr]
    [] name = "format_range" ->
         [filepath |-> EmptyStr, sheet_name |-> EmptyStr, start_cell |-> EmptyStr,
          end_cell |-> PyNone, bold |-> PyFalse]
    [] name = "read_data_from_excel" ->
         [filepath |-> EmptyStr, sheet_name |-> EmptyStr,
          start_cell |-> PyStr(<<"A1">>), end_cell |-> PyNone,
          preview_only |-> PyFalse]
    [] name = "write_data_to_excel" ->
         [filepath |-> EmptyStr, sheet_name |-> EmptyStr, data |-> EmptyList,
          start_cell |-> PyStr(<<"A1">>), write_headers |-> PyTrue]
    [] name = "create_workbook" -> [filepath |-> EmptyStr]
    [] name \in {"create_worksheet", "delete_worksheet"} ->
         [filepath |-> EmptyStr, sheet_name |-> EmptyStr]
    [] name = "create_chart" ->
         [filepath |-> EmptyStr, sheet_name |-> EmptyStr, data_range |-> EmptyStr,
          chart_type |-> EmptyStr, target_cell |-> EmptyStr, title |-> EmptyStr]
    [] name = "create_pivot_table" ->
         [filepath |-> EmptyStr, sheet_name |-> EmptyStr, data_range |-> EmptyStr,
          rows |-> EmptyList, values |-> EmptyList, columns |-> EmptyList,
          agg_func |-> PyStr(<<"mean">>)]
    [] name = "copy_worksheet" ->
         [filepath |-> EmptyStr, source_sheet |-> EmptyStr, target_sheet |-> EmptyStr]
    [] name = "rename_worksheet" ->
         [filepath |-> EmptyStr, old_name |-> EmptyStr, new_name |-> EmptyStr]
    [] name = "get_workbook_metadata" ->
         [filepath |-> EmptyStr, include_ranges |-> PyFalse]
    [] name \in {"merge_cells", "unmerge_cells"} ->
         [filepath |-> EmptyStr, sheet_name |-> EmptyStr, start_cell |-> EmptyStr,
          end_cell |-> EmptyStr]
    [] name = "copy_range" ->
         [filepath |-> EmptyStr, sheet_name |-> EmptyStr, source_start |-> EmptyStr,
          source_end |-> EmptyStr, target_start |-> EmptyStr, target_sheet |-> PyNone]
    [] name = "delete_range" ->
         [filepath |-> EmptyStr, sheet_name |-> EmptyStr, start_cell |-> EmptyStr,
          end_cell |-> EmptyStr, shift_direction |-> PyStr(<<"up">>)]
    [] name = "validate_excel_range" ->
         [filepath |-> EmptyStr, sheet_name |-> EmptyStr, start_cell |-> EmptyStr,
          end_cell |-> PyNone]

\* The local variables of a branch after its arguments.get lines: filepath is
\* get_excel_path(arguments.get("filepath", "")), the others the argument or
\* its default.
Locals(name, arguments) ==
  [k \in DOMAIN Defaults(name) |->
     IF k = "filepath"
     THEN PyStr(get_excel_path(Get(arguments, "filepath", EmptyStr).v))
     ELSE Get(arguments, k, Defaults(name)[k])]

\* The locals a branch tests with `if not all([...])` (`if not filepath`).
Checked(name) ==
  CASE name \in {"apply_formula", "validate_formula_syntax"} ->
         {"filepath", "sheet_name", "cell", "formula"}
    [] name \in {"format_range", "validate_excel_range"} ->
         {"filepath", "sheet_name", "start_cell"}
    [] name \in {"read_data_from_excel", "create_worksheet", "delete_worksheet"} ->
         {"filepath", "sheet_name"}
    [] name = "write_data_to_excel" -> {"filepath", "sheet_name", "data"}
    [] name \in {"create_workbook", "get_workbook_metadata"} -> {"filepath"}
    [] name = "create_chart" ->
         {"filepath", "sheet_name", "data_range", "chart_type", "target_cell"}
    [] name = "create_pivot_table" ->
         {"filepath", "sheet_name", "data_range", "rows", "values"}
    [] name = "copy_worksheet" -> {"filepath", "source_sheet", "target_sheet"}
    [] name = "rename_worksheet" -> {"filepath", "old_name", "new_name"}
    [] name \in {"merge_cells", "unmerge_cells", "delete_range"} ->
         {"filepath", "sheet_name", "start_cell", "end_cell"}
    [] name = "copy_range" ->
         {"filepath", "sheet_name", "source_start", "source_end", "target_start"}

\* all([...]) over the checked locals.
AllPresent(name, locals) == \A k \in Checked(name) : Truthy(locals[k])

\* The text a branch returns when its check fails.
MissingText(name) ==
  IF name \in {"create_workbook", "get_workbook_metadata"}
  THEN <<"Error", ": Missing filepath parameter">>
  ELSE <<"Error", ": Missing required parameters">>

\* The backend operations a branch calls, in the order it calls them.
Ops(name) ==
  CASE name = "apply_formula" -> <<"validate_formula_impl", "apply_formula_impl">>
    [] name = "validate_formula_syntax" -> <<"validate_formula_impl">>
    [] name = "format_range" -> <<"format_range_func">>
    [] name = "read_data_from_excel" -> <<"read_excel_range">>
    [] name = "write_data_to_excel" -> <<"write_data">>
    [] name = "create_workbook" -> <<"create_workbook_impl">>
    [] name = "create_worksheet" -> <<"create_worksheet_impl">>
    [] name = "create_chart" -> <<"create_chart_impl">>
    [] name = "create_pivot_table" -> <<"create_pivot_table_impl">>
    [] name = "copy_worksheet" -> <<"copy_sheet">>
    [] name = "delete_worksheet" -> <<"delete_sheet">>
    [] name = "rename_worksheet" -> <<"rename_sheet">>
    [] name = "get_workbook_metadata" -> <<"get_workbook_info">>
    [] name = "merge_cells" -> <<"merge_range">>
    [] name = "unmerge_cells" -> <<"unmerge_range">>
    [] name = "copy_range" -> <<"copy_range_operation">>
    [] name = "delete_range" -> <<"delete_range_operation">>
    [] name = "validate_excel_range" -> <<"validate_range_impl">>

\* The exception classes: the eight of excel_mcp.exceptions and "Exception",
\* any other subclass of Exception.
DomainKinds == {
  "ValidationError", "WorkbookError", "SheetError", "DataError",
  "FormattingError", "CalculationError", "PivotError", "ChartError" }

Kinds == DomainKinds \cup {"Exception"}

\* The classes the `except` clause at a branch's call site names.
Caught(name) ==
  CASE name \in {"apply_formula", "validate_formula_syntax"} ->
         {"ValidationError", "CalculationError"}
    [] name = "format_range" -> {"ValidationError", "FormattingError"}
    [] name = "read_data_from_excel" -> Kinds
    [] name = "write_data_to_excel" -> {"ValidationError", "DataError"}
    [] name \in {"create_workbook", "get_workbook_metadata"} -> {"WorkbookError"}
    [] name = "create_worksheet" -> {"ValidationError", "WorkbookError"}
    [] name = "create_chart" -> {"ValidationError", "ChartError"}
    [] name = "create_pivot_table" -> {"ValidationError", "PivotError"}
    [] name \in {"copy_worksheet", "delete_worksheet", "rename_worksheet",
                 "merge_cells", "unmerge_cells", "copy_range", "delete_range"} ->
         {"ValidationError", "SheetError"}
    [] name = "validate_excel_range" -> {"ValidationError"}

\* CaughtText returning the bare message.
CaughtTextBare(name, msg) == msg

\* The text of a branch's `except` clause for an exception with message msg.
CaughtText(name, msg) ==
  IF name = "read_data_from_excel"
  THEN <<"Error", " reading data: ">> \o msg
  ELSE <<"Error", ": ">> \o msg

\* The text of the outer `except Exception` of call_tool.
OuterText(msg) == <<"Error", " executing tool: ">> \o msg

\* UnknownText without the name.
UnknownTextNoName(name) == <<"Unknown tool: ">>

\* The text of the final else of call_tool.
UnknownText(name) == <<"Unknown tool: ", name>>

\* `x or []`.
OrEmptyList(x) == IF Truthy(x) THEN x ELSE EmptyList

RangeStrAlwaysJoined(start_cell, end_cell) ==
  PyStr(start_cell.v \o <<":">> \o end_cell.v)
\* range_str of the validate_excel_range branch.
RangeStr(start_cell, end_cell) ==
  IF ~Truthy(end_cell) THEN start_cell
  ELSE PyStr(start_cell.v \o <<":">> \o end_cell.v)

\* The arguments a branch passes to its backend operation(s), in call order
\* (keyword arguments in the order written), from its locals L.
BackendArgs(name, L) ==
  CASE name \in {"apply_formula", "validate_formula_syntax"} ->
         <<L.filepath, L.sheet_name, L.cell, L.formula>>
    [] name = "format_range" ->
         <<L.filepath, L.sheet_name, L.start_cell, L.end_cell, L.bold>>
    [] name = "read_data_from_excel" ->
         <<L.filepath, L.sheet_name, L.start_cell, L.end_cell, L.preview_only>>
    [] name = "write_data_to_excel" ->
         <<L.filepath, L.sheet_name, L.data, L.start_cell, L.write_headers>>
    [] name = "create_workbook" -> <<L.filepath>>
    [] name \in {"create_worksheet", "delete_worksheet"} ->
         <<L.filepath, L.sheet_name>>
    [] name = "create_chart" ->
         <<L.filepath, L.sheet_name, L.data_range, L.chart_type, L.target_cell,
           L.title>>
    [] name = "create_pivot_table" ->
         <<L.filepath, L.sheet_name, L.data_range, L.rows, L.values,
           OrEmptyList(L.columns), L.agg_func>>
    [] name = "copy_worksheet" -> <<L.filepath, L.source_sheet, L.target_sheet>>
    [] name = "rename_worksheet" -> <<L.filepath, L.old_name, L.new_name>>
    [] name = "get_workbook_metadata" -> <<L.filepath, L.include_ranges>>
    [] name \in {"merge_cells", "unmerge_cells"} ->
         <<L.filepath, L.sheet_name, L.start_cell, L.end_cell>>
    [] name = "copy_range" ->
         <<L.filepath, L.sheet_name, L.source_start, L.source_end,
           L.target_start, L.target_sheet>>
    [] name = "delete_range" ->
         <<L.filepath, L.sheet_name, L.start_cell, L.end_cell, L.shift_direction>>
    [] name = "validate_excel_range" ->
         <<L.filepath, L.sheet_name, RangeStr(L.start_cell, L.end_cell)>>

\* ------------------------------------------------------ the backend's part

\* The most rows read_excel_range returns in the model.
MaxRows == 2

\* The messages an exception carries in the model.
Msgs == {<<"boom">>, <<"disk", " full">>}

\* The "message" and the "error" entry of a backend result.
ResultMessage == <<"done">>

ResultError == <<"bad", " formula">>

RowNames == <<"r1", "r2", "r3", "r4">>

RECURSIVE RowsUpTo(_)
\* The row list of length n: row i is the one-cell row <<RowNames[i]>>.
RowsUpTo(n) == IF n = 0 THEN << >> ELSE Append(RowsUpTo(n - 1), <<RowNames[n]>>)

\* What one backend operation can do: return a result (a dict with some of
\* the keys "message" and "error", or for read_excel_range a list of rows),
\* or raise an exception of some class with some message.
Outcomes(op) ==
  [raised : {TRUE}, kind : Kinds, msg : Msgs, keys : {{}}, rows : {<< >>}]
  \cup
  [raised : {FALSE}, kind : {""}, msg : {<< >>},
   keys : IF op = "validate_formula_impl" THEN SUBSET {"message", "error"}
          ELSE IF op = "read_excel_range" THEN {{}}
          ELSE {{"message"}, {}},
   rows : IF op = "read_excel_range" THEN {RowsUpTo(n) : n \in 0..MaxRows}
          ELSE {<< >>}]

\* ---------------------------------------------- call_tool: the renderings

\* str(row) of one returned row.
StrRow(row) == <<"{">> \o row \o <<"}">>

RECURSIVE JoinRows(_)
JoinRowsFirstOnly(rows) == IF Len(rows) = 0 THEN << >> ELSE StrRow(rows[1])
\* "\n".join([str(row) for row in result]).
JoinRows(rows) ==
  IF Len(rows) = 0 THEN << >>
  ELSE IF Len(rows) = 1 THEN StrRow(rows[1])
  ELSE StrRow(rows[1]) \o <<"\n">> \o JoinRows(Tail(rows))

AfterValidationIgnoringError(o) == [next |-> TRUE, text |-> << >>, cls |-> ""]
\* What apply_formula does with the result of the validation: return its
\* "error" entry as an error text, or go on to apply the formula.
AfterValidation(o) ==
  IF "error" \in o.keys
  THEN [next |-> FALSE, text |-> <<"Error", ": ">> \o ResultError,
        cls |-> "reported"]
  ELSE [next |-> TRUE, text |-> << >>, cls |-> ""]

\* OnReturn with apply_formula returning after the validation, as
\* validate_formula_syntax does.
OnReturnNoApply(name, i, L, o) ==
  IF "message" \in o.keys
  THEN [next |-> FALSE, text |-> ResultMessage, cls |-> "result"]
  ELSE [next |-> FALSE, text |-> <<"Error", " executing tool: ", "'message'">>,
        cls |-> "outer"]

\* What a branch does with the value its i-th backend operation returned:
\* call the next operation (next = TRUE) or return text from call_tool, at the
\* call site (cls "reported" for a reported validation error, "result" for a
\* success) or, when result["message"] raises KeyError, at the outer
\* `except Exception` (cls "outer").
OnReturn(name, i, L, o) ==
  LET Message == IF "message" \in o.keys
                 THEN [next |-> FALSE, text |-> ResultMessage, cls |-> "result"]
                 ELSE [next |-> FALSE, text |-> OuterText(<<"'message'">>),
                       cls |-> "outer"]
  IN CASE name = "apply_formula" /\ i = 1 -> AfterValidation(o)
       [] name = "format_range" ->
            [next |-> FALSE, text |-> <<"Range formatted successfully">>, cls |-> "result"]
       [] name = "read_data_from_excel" ->
            IF Len(o.rows) = 0
            THEN [next |-> FALSE, text |-> <<"No data found in specified range">>,
                  cls |-> "result"]
            ELSE [next |-> FALSE, text |-> JoinRows(o.rows), cls |-> "result"]
       [] name = "create_workbook" ->
            [next |-> FALSE, text |-> <<"Created workbook at ">> \o L.filepath.v,
             cls |-> "result"]
       [] name = "get_workbook_metadata" ->
            [next |-> FALSE, text |-> <<"{", "workbook info", "}">>, cls |-> "result"]
       [] OTHER -> Message

\* OuterCaught naming the domain classes only.
OuterCaughtDomainOnly == DomainKinds

\* The classes the outer `except Exception` of call_tool catches: all of the
\* model's, each a subclass of Exception.
OuterCaught == Kinds

\* OnRaise with every branch catching `Exception` at its call site.
OnRaiseAllAtSite(name, o) ==
  [next |-> FALSE, text |-> CaughtText(name, o.msg), cls |-> "site"]

\* What call_tool does with an exception its backend operation raised: the
\* branch's `except` clause when it names the class (cls "site"), else the
\* outer `except Exception` (cls "outer"), else the exception leaves
\* call_tool (cls "raise").
OnRaise(name, o) ==
  IF o.kind \in Caught(name)
  THEN [next |-> FALSE, text |-> CaughtText(name, o.msg), cls |-> "site"]
  ELSE IF o.kind \in OuterCaught
  THEN [next |-> FALSE, text |-> OuterText(o.msg), cls |-> "outer"]
  ELSE [next |-> FALSE, text |-> << >>, cls |-> "raise"]

\* ------------------------------------------------------------- the inputs

\* The names a request can carry: the advertised ones, the dispatched ones
\* and two that are neither.
ToolNames == {list_tools[i].name : i \in DOMAIN list_tools}

Names == ToolNames \cup Branches \cup {"frobnicate", "Apply_Formula"}

\* The schema entry of an advertised tool.
Schema(name) == list_tools[CHOOSE i \in DOMAIN list_tools : list_tools[i].name = name]

\* The keys a request for `name` may carry in the model.
Params(name) == IF name \in ToolNames THEN Schema(name).properties ELSE {"filepath"}

\* The values a key may carry in the model: the empty value of its type and
\* populated ones (for filepath a relative and an absolute name).
ParamValues(key) ==
  CASE key = "filepath" ->
         {EmptyStr, PyStr(<<"book.xlsx">>), PyStr(<<"/", "data", "/", "book.xlsx">>)}
    [] key \in {"data", "rows", "values", "columns"} ->
         {EmptyList, PyList(<<"item">>)}
    [] key \in {"bold", "preview_only", "write_headers", "include_ranges"} ->
         {PyTrue, PyFalse}
    [] key = "start_cell" -> {EmptyStr, PyStr(<<"B2">>)}
    [] key = "end_cell" -> {EmptyStr, PyStr(<<"C3">>)}
    [] key = "agg_func" -> {EmptyStr, PyStr(<<"sum">>)}
    [] key = "shift_direction" -> {EmptyStr, PyStr(<<"left">>)}
    [] OTHER -> {EmptyStr, PyStr(<<"val">>)}

RECURSIVE BagsOver(_)
\* Every argument bag with keys among `keys`: each key absent or carrying one
\* of its values.
BagsOver(keys) ==
  IF keys = {} THEN {<< >>}
  ELSE LET k == CHOOSE x \in keys : TRUE
           rest == BagsOver(keys \ {k})
       IN rest \cup
          {[q \in DOMAIN b \cup {k} |-> IF q = k THEN v ELSE b[q]] :
             b \in rest, v \in ParamValues(k)}

ArgBags(name) == BagsOver(Params(name))

\* --------------------------------------------------------------- the state

\* The most call_tool requests the transport has as tasks at a time.
MaxCallTasks == 2

CallTasks == 1..MaxCallTasks

\* The most read_resource requests the transport has as tasks at a time.
MaxReadTasks == 1

ReadTasks == 1..MaxReadTasks

VARIABLES
  task,     \* task[t]: the call_tool coroutine of task t
  rtask,    \* rtask[r]: the read_resource coroutine of task r
  worker,   \* worker[r]: the executor thread running get_info for rtask[r]
  running,  \* the coroutine the event loop is running, or NoTask
  dir,      \* the names of the entries of the root directory
  listed    \* what the last list_resources call saw and returned

vars == <<task, rtask, worker, running, dir, listed>>

NoTask == [h |-> "none", id |-> 0]

IdleTask ==
  [pc |-> "idle", name |-> "", arguments |-> << >>, resolved |-> 0,
   calls |-> << >>, outs |-> << >>, text |-> << >>, cls |-> ""]

\* AwaitPoints with call_tool awaiting its backend operation.
AwaitPointsBackendAwaited(h) ==
  IF h = "read_resource" THEN {"awaiting"} ELSE {"calling"}

\* The positions at which a handler's coroutine awaits, handing the event
\* loop to other tasks: call_tool has no await expression, read_resource
\* awaits asyncio.wait_for.
AwaitPoints(h) == IF h = "read_resource" THEN {"awaiting"} ELSE {}

\* Who holds the event loop after coroutine (h, id) reached position pc.
LoopAfter(h, id, pc) ==
  IF pc \in AwaitPoints(h) \cup {"idle"} THEN NoTask ELSE [h |-> h, id |-> id]

\* The files of the root directory in the model.
DirFiles == {<<"a", ".xlsx">>, <<"b", " ", "c", ".xlsx">>}

IdleRead == [pc |-> "idle", uri |-> << >>, file |-> << >>, path |-> << >>,
             resolved |-> 0, text |-> << >>, cls |-> "", timedout |-> FALSE]

\* No list_resources call yet.
NotListed == [st |-> "none", entries |-> << >>, items |-> << >>]

NoWorker == [st |-> "none", result |-> << >>, path |-> << >>]

Init ==
  /\ task = [t \in CallTasks |-> IdleTask]
  /\ rtask = [r \in ReadTasks |-> IdleRead]
  /\ worker = [r \in ReadTasks |-> NoWorker]
  /\ running = NoTask
  /\ dir = DirFiles
  /\ listed = NotListed

\* call_tool(name, arguments) up to its first backend call: the log line, the
\* branch, get_excel_path, the arguments.get lines, the check, and the call
\* of the branch's first backend operation, whose return is BackendReturn.
CallToolBody(t, name, arguments) ==
  LET pc == IF name \in Branches /\ AllPresent(name, Locals(name, arguments))
            THEN "calling" ELSE "returned"
  IN /\ task' = [task EXCEPT ![t] =
          IF name \notin Branches
          THEN [IdleTask EXCEPT !.pc = pc, !.name = name,
                  !.arguments = arguments, !.text = UnknownText(name),
                  !.cls = "else"]
          ELSE IF ~AllPresent(name, Locals(name, arguments))
          THEN [IdleTask EXCEPT !.pc = pc, !.name = name,
                  !.arguments = arguments, !.resolved = 1,
                  !.text = MissingText(name), !.cls = "check"]
          ELSE [IdleTask EXCEPT !.pc = pc, !.name = name,
                  !.arguments = arguments, !.resolved = 1,
                  !.calls = <<[op |-> Ops(name)[1],
                               args |-> BackendArgs(name, Locals(name, arguments))]>>]]
     /\ running' = LoopAfter("call_tool", t, pc)

\* The event loop starts task t on a call_tool request, any name with any
\* argument bag for it.
CallTool(t, requests) ==
  /\ running = NoTask
  /\ task[t].pc = "idle"
  /\ \E rq \in requests : CallToolBody(t, rq[1], rq[2])
  /\ UNCHANGED <<rtask, worker, dir, listed>>

\* The backend operation in progress returns or raises (outcome o), and
\* call_tool runs on: to the next backend call of the branch, or to a return.
BackendReturnBody(t, o) ==
     LET name == task[t].name
         L == Locals(name, task[t].arguments)
         r == IF o.raised THEN OnRaise(name, o)
              ELSE OnReturn(name, Len(task[t].calls), L, o)
         pc == IF r.next THEN "calling" ELSE "returned"
     IN /\ task' = [task EXCEPT ![t] =
             [@ EXCEPT !.pc = pc, !.outs = Append(@, o),
                !.calls = IF r.next
                          THEN Append(@, [op |-> Ops(name)[Len(@) + 1],
                                          args |-> BackendArgs(name, L)])
                          ELSE @,
                !.text = r.text, !.cls = r.cls]]
        /\ running' = LoopAfter("call_tool", t, pc)

BackendReturn(t) ==
  /\ task[t].pc = "calling"
  /\ running = IF "calling" \in AwaitPoints("call_tool") THEN NoTask
               ELSE [h |-> "call_tool", id |-> t]
  /\ \E o \in Outcomes(task[t].calls[Len(task[t].calls)].op) :
       BackendReturnBody(t, o)
  /\ UNCHANGED <<rtask, worker, dir, listed>>

\* The returned list goes to the transport and the task ends.
Deliver(t) ==
  /\ task[t].pc = "returned"
  /\ running = [h |-> "call_tool", id |-> t]
  /\ task' = [task EXCEPT ![t] = IdleTask]
  /\ running' = NoTask
  /\ UNCHANGED <<rtask, worker, dir, listed>>

\* ----------------------------------------------------------- read_resource

\* urllib.parse.unquote's table, for the escapes of the model: the character
\* a pair of hex digits stands for.
HexPairs == {<<"2", "0">>, <<"2", "5">>, <<"2", "F">>}

HexChar(pair) ==
  CASE pair = <<"2", "0">> -> " "
    [] pair = <<"2", "5">> -> "%"
    [] pair = <<"2", "F">> -> "/"

RECURSIVE unquote(_)
\* urllib.parse.unquote(s) on the characters of s: "%" and two hex digits
\* become the character, anything else stays.
unquote(s) ==
  IF Len(s) = 0 THEN << >>
  ELSE IF s[1] = "%" /\ Len(s) >= 3 /\ <<s[2], s[3]>> \in HexPairs
  THEN <<HexChar(<<s[2], s[3]>>)>> \o unquote(SubSeq(s, 4, Len(s)))
  ELSE <<s[1]>> \o unquote(Tail(s))

\* The characters urllib.parse.quote leaves alone are letters, digits,
\* "_", ".", "-", "~" and "/"; of the characters of the model it escapes
\* the space and the percent sign.
QuoteChar(c) ==
  CASE c = " " -> <<"%", "2", "0">>
    [] c = "%" -> <<"%", "2", "5">>
    [] OTHER -> <<c>>

RECURSIVE quote(_)
quote_nothing(s) == s
\* urllib.parse.quote(s) on the characters of s.
quote(s) ==
  IF Len(s) = 0 THEN << >> ELSE QuoteChar(s[1]) \o quote(Tail(s))

\* A byte of a file name that is not UTF-8: os.listdir returns it as a lone
\* surrogate, which quote cannot encode (UnicodeEncodeError).
Undecodable == "0xFF"

QuoteRaises(s) == \E i \in DOMAIN s : s[i] = Undecodable

\* The URIs of the model; the first token is the eight characters "excel://"
\* or another scheme, the rest single characters and the extension.
ReadUris == {
  <<"excel://", "a", ".xlsx">>,
  <<"excel://", "b", "%", "2", "0", "c", ".xlsx">>,
  <<"excel://", "n", "o", ".xlsx">>,
  <<"excel://", "n", "%", "2", "0", "o", ".xlsx">>,
  <<"excel://", "/", "data", "/", "a", ".xlsx">>,
  <<"file://", "a", ".xlsx">>,
  <<"file://", "n", "o", ".xlsx">> }

HasExcelSchemeAlways(uri) == TRUE
\* uri.startswith("excel://") and uri[8:].
HasExcelScheme(uri) == Len(uri) > 0 /\ uri[1] = "excel://"

\* os.path.exists(path): the path of an entry of the root directory.
Exists(path) == path \in {PathJoin(EXCEL_FILES_PATH, f) : f \in dir}

\* What get_info returns: str() of the workbook info, or the text of its own
\* `except Exception`.
WorkerResults ==
  {<<"{", "workbook info", "}">>}
  \cup {<<"Error", " reading workbook: ">> \o m : m \in Msgs}

TimeoutText == <<"Error", ": Operation timed out while reading Excel file">>

ShutdownDoesNotWait == FALSE
\* ThreadPoolExecutor.__exit__ is shutdown(wait=True): leaving the `with`
\* block joins the worker thread.
ShutdownWaits == TRUE

ExtensionsNoXlsm == {".xlsx", ".xls"}
\* The suffixes list_resources accepts.
Extensions == {".xlsx", ".xls", ".xlsm"}

\* file.endswith(('.xlsx', '.xls', '.xlsm')); a name ends with its last token.
EndsWithExtension(file) == Len(file) > 0 /\ file[Len(file)] \in Extensions

\* The Resource list_resources builds for one file.
Descriptor(file) ==
  [uri |-> <<"excel://">> \o quote(file),
   name |-> file,
   mimeType |-> "application/vnd.openxmlformats-officedocument.spreadsheetml.sheet",
   description |-> <<"Excel workbook: ">> \o file]

RECURSIVE list_resources(_)
\* The loop of list_resources over the entries os.listdir returned, in their
\* order.
list_resources(entries) ==
  IF Len(entries) = 0 THEN << >>
  ELSE (IF EndsWithExtension(entries[1])
        THEN <<Descriptor(entries[1])>> ELSE << >>)
       \o list_resources(Tail(entries))

\* The loop of list_resources raises when it reaches a spreadsheet name that
\* quote cannot encode.
ListRaises(entries) ==
  \E i \in DOMAIN entries :
    EndsWithExtension(entries[i]) /\ QuoteRaises(entries[i])

\* os.listdir returns the entries in an arbitrary order.
ListDir(entries) ==
  {o \in [1..Cardinality(entries) -> entries] :
     \A i, j \in DOMAIN o : i # j => o[i] # o[j]}

\* The text of the outer `except Exception` of read_resource.
ReadOuterText(msg) == <<"Error", " reading resource: ">> \o msg

\* The URIs of the descriptors the last list_resources call returned.
ListedUris == {listed.items[i].uri : i \in DOMAIN listed.items}

\* read_resource(uri) up to its await: the scheme check (ValueError, caught
\* by the outer `except Exception`), unquote, get_excel_path, the existence
\* check, and the submission of get_info to a new executor.
ReadResourceBody(r, uri) ==
  LET file == unquote(Tail(uri))
      path == get_excel_path(file)
      pc == IF ~HasExcelScheme(uri) \/ ~Exists(path)
            THEN "returned" ELSE "awaiting"
  IN /\ rtask' = [rtask EXCEPT ![r] =
          IF ~HasExcelScheme(uri)
          THEN [IdleRead EXCEPT !.pc = pc, !.uri = uri, !.cls = "outer",
                  !.text = ReadOuterText(<<"Invalid URI scheme: ">> \o uri)]
          ELSE IF ~Exists(path)
          THEN [IdleRead EXCEPT !.pc = pc, !.uri = uri, !.file = file,
                  !.path = path, !.resolved = 1, !.cls = "notfound",
                  !.text = <<"Error", ": File not found: ">> \o file]
          ELSE [IdleRead EXCEPT !.pc = pc, !.uri = uri, !.file = file,
                  !.path = path, !.resolved = 1]]
     /\ worker' = [worker EXCEPT ![r] =
          IF pc = "awaiting"
          THEN [st |-> "running", result |-> << >>, path |-> path] ELSE @]
     /\ running' = LoopAfter("read_resource", r, pc)

ReadResource(r) ==
  /\ running = NoTask
  /\ rtask[r].pc = "idle"
  /\ worker[r].st # "running"
  /\ \E uri \in ReadUris \cup ListedUris : ReadResourceBody(r, uri)
  /\ UNCHANGED <<task, dir, listed>>

\* The worker thread finishes get_info (it may also never do so).
WorkerReturn(r) ==
  /\ worker[r].st = "running"
  /\ \E res \in WorkerResults : worker' = [worker EXCEPT ![r] = [@ EXCEPT !.st = "done", !.result = res]]
  /\ UNCHANGED <<task, rtask, running, dir, listed>>

\* The future completed before the timeout: wait_for returns the result and
\* the coroutine runs `return str(result)`, which leaves the `with` block.
Resume(r) ==
  /\ running = NoTask
  /\ rtask[r].pc = "awaiting"
  /\ worker[r].st = "done"
  /\ rtask' = [rtask EXCEPT ![r] = [@ EXCEPT !.pc = "shutdown", !.text = worker[r].result, !.cls = "result"]]
  /\ running' = LoopAfter("read_resource", r, "shutdown")
  /\ UNCHANGED <<task, worker, dir, listed>>

\* 15 seconds passed with the future not done: wait_for raises TimeoutError
\* and the coroutine runs the `return` of the except clause, which leaves
\* the `with` block.
Timeout(r) ==
  /\ running = NoTask
  /\ rtask[r].pc = "awaiting"
  /\ worker[r].st = "running"
  /\ rtask' = [rtask EXCEPT ![r] =
       [@ EXCEPT !.pc = "shutdown", !.text = TimeoutText, !.cls = "timeout",
          !.timedout = TRUE]]
  /\ running' = LoopAfter("read_resource", r, "shutdown")
  /\ UNCHANGED <<task, worker, dir, listed>>

\* The executor's __exit__ returns, and read_resource with it.
ShutdownReturn(r) ==
  /\ running = [h |-> "read_resource", id |-> r]
  /\ rtask[r].pc = "shutdown"
  /\ ShutdownWaits => worker[r].st # "running"
  /\ rtask' = [rtask EXCEPT ![r] = [@ EXCEPT !.pc = "returned"]]
  /\ UNCHANGED <<task, worker, running, dir, listed>>

\* The returned text goes to the transport and the task ends.
DeliverRead(r) ==
  /\ running = [h |-> "read_resource", id |-> r]
  /\ rtask[r].pc = "returned"
  /\ rtask' = [rtask EXCEPT ![r] = IdleRead]
  /\ worker' = [worker EXCEPT ![r] = IF @.st = "done" THEN NoWorker ELSE @]
  /\ running' = NoTask
  /\ UNCHANGED <<task, dir, listed>>

\* list_resources(): it has no await, so it runs when the loop is free and
\* returns the descriptors of what os.listdir returned, or the empty list
\* of its except clause when encoding a name raised.
ListResources ==
  /\ running = NoTask
  /\ \E entries \in ListDir(dir) :
       listed' = IF ListRaises(entries)
                 THEN [st |-> "quote raised", entries |-> entries,
                       items |-> << >>]
                 ELSE [st |-> "ok", entries |-> entries,
                       items |-> list_resources(entries)]
  /\ UNCHANGED <<task, rtask, worker, running, dir>>

\* list_resources() when os.listdir raises: the except clause returns [].
ListResourcesFails ==
  /\ running = NoTask
  /\ listed' = [st |-> "listdir raised", entries |-> << >>, items |-> << >>]
  /\ UNCHANGED <<task, rtask, worker, running, dir>>

\* Another process deletes a file of the root directory.
RemoveFile(f) ==
  /\ f \in dir
  /\ dir' = dir \ {f}
  /\ UNCHANGED <<task, rtask, worker, running, listed>>

\* ------------------------------------------------------ the specifications

\* Every request of the model: every name with every argument bag for it.
Requests == UNION {{<<name, arguments>> : arguments \in ArgBags(name)} : name \in Names}

\* All arguments of an advertised tool populated, the path relative.
FullBag(name) ==
  [k \in Params(name) |->
     CHOOSE v \in ParamValues(k) : Truthy(v) /\ ~IsAbs(v.v)]

\* FullBag with the absolute path.
AbsBag(name) ==
  [FullBag(name) EXCEPT
     !.filepath = CHOOSE v \in ParamValues("filepath") : IsAbs(v.v)]

\* The requests of the event-loop specification: the empty bag for three
\* names, the full bag for every advertised tool, and the full bag with an
\* absolute path for two.
LoopRequests ==
  {<<name, << >> >> : name \in {"apply_formula", "create_workbook", "frobnicate"}}
  \cup {<<name, FullBag(name)>> : name \in ToolNames}
  \cup {<<name, AbsBag(name)>> : name \in {"apply_formula", "create_workbook"}}

\* One call_tool request at a time, over every tool name and argument bag.
Next ==
  \/ CallTool(1, Requests)
  \/ BackendReturn(1)
  \/ Deliver(1)

Spec == Init /\ [][Next]_vars

\* The event loop with call_tool and read_resource tasks and the executor
\* threads of read_resource.
NextLoop ==
  \/ \E t \in CallTasks : CallTool(t, LoopRequests)
  \/ \E t \in CallTasks : BackendReturn(t)
  \/ \E t \in CallTasks : Deliver(t)
  \/ \E r \in ReadTasks : ReadResource(r)
  \/ \E r \in ReadTasks : WorkerReturn(r)
  \/ \E r \in ReadTasks : Resume(r)
  \/ \E r \in ReadTasks : Timeout(r)
  \/ \E r \in ReadTasks : ShutdownReturn(r)
  \/ \E r \in ReadTasks : DeliverRead(r)

SpecLoop == Init /\ [][NextLoop]_vars

\* The directories of the resource specification: up to MaxDirEntries of
\* these names.
MaxDirEntries == 3

AllFiles == {
  <<"a", ".xlsx">>, <<"b", ".txt">>, <<"c", ".xlsm">>,
  <<"b", " ", "%", "2", "0", ".xls">>,
  <<"d", ".xlsx", ".bak">>, <<Undecodable, ".xlsx">> }

Dirs == {d \in SUBSET AllFiles : Cardinality(d) <= MaxDirEntries}

InitRes ==
  /\ task = [t \in CallTasks |-> IdleTask]
  /\ rtask = [r \in ReadTasks |-> IdleRead]
  /\ worker = [r \in ReadTasks |-> NoWorker]
  /\ running = NoTask
  /\ dir \in Dirs
  /\ listed = NotListed

\* list_resources and one read_resource request at a time over a directory
\* that other processes delete from.
NextRes ==
  \/ ListResources
  \/ ListResourcesFails
  \/ \E f \in AllFiles : RemoveFile(f)
  \/ ReadResource(1)
  \/ WorkerReturn(1)
  \/ Resume(1)
  \/ Timeout(1)
  \/ ShutdownReturn(1)
  \/ DeliverRead(1)

SpecRes == InitRes /\ [][NextRes]_vars

\* ------------------------------------------------------------- the claims

\* The "required" list of an advertised tool, as a set.
Required(name) == {Schema(name).required[i] : i \in DOMAIN Schema(name).required}

\* The key is omitted from the bag, or carries an empty string or list.
MissingOrEmpty(arguments, key) == key \notin DOMAIN arguments \/ ~Truthy(arguments[key])

\* Text m occurs in text as a contiguous part.
Contains(text, m) ==
  \E i \in 0..(Len(text) - Len(m)) : SubSeq(text, i + 1, i + Len(m)) = m

\* The call_tool tasks that have returned.
Returned == {t \in CallTasks : task[t].pc = "returned"}

\* The exception the backend raised in task t's last completed call, if any.
LastOut(t) == task[t].outs[Len(task[t].outs)]

BackendRaised(t) == Len(task[t].outs) > 0 /\ LastOut(t).raised

\* C1: for every advertised tool and every required parameter of it
\* (filepath included), a call with that parameter omitted or empty returns
\* "Error: Missing required parameters" and invokes no backend operation.
C1_MissingRequiredRejected ==
  \A t \in CallTasks :
    (/\ task[t].pc # "idle"
     /\ task[t].name \in ToolNames
     /\ \E key \in Required(task[t].name) : MissingOrEmpty(task[t].arguments, key))
    => /\ task[t].pc = "returned"
       /\ task[t].text = <<"Error", ": Missing required parameters">>
       /\ task[t].calls = << >>

\* C2: whatever the name, the argument bag and the backend's outcome,
\* call_tool does not raise and returns one non-empty text; when the backend
\* raised, the text contains the exception's message.
C2_AlwaysOneText ==
  \A t \in Returned :
    /\ task[t].cls # "raise"
    /\ Len(task[t].text) > 0
    /\ BackendRaised(t) => Contains(task[t].text, LastOut(t).msg)

\* C2 witness: a call returned after its backend raised a class the branch's
\* except clause does not name.
C2_Witness ==
  \E t \in Returned :
    /\ BackendRaised(t)
    /\ LastOut(t).kind \notin Caught(task[t].name)
    /\ Contains(task[t].text, LastOut(t).msg)

\* C3: when the timeout of read_resource fired, the caller returns without
\* waiting for the worker: its return is enabled although the worker still
\* runs.
C3_TimeoutReturnsAtOnce ==
  \A r \in ReadTasks :
    (rtask[r].pc = "shutdown" /\ rtask[r].timedout) => ENABLED ShutdownReturn(r)

\* C4: for a name that is none of the advertised tools, call_tool returns
\* exactly "Unknown tool: <name>", without raising, without a backend call
\* and without resolving a path.
C4_UnknownTool ==
  \A t \in CallTasks :
    (task[t].pc # "idle" /\ task[t].name \notin ToolNames)
    => /\ task[t].pc = "returned"
       /\ task[t].text = <<"Unknown tool: ", task[t].name>>
       /\ task[t].cls # "raise"
       /\ task[t].calls = << >>
       /\ task[t].resolved = 0

\* C4 witness: a call with an unadvertised name has returned.
C4_Witness ==
  \E t \in Returned :
    task[t].name = "frobnicate" /\ task[t].text = <<"Unknown tool: ", "frobnicate">>

\* C5: list_tools names 18 pairwise distinct tools, the advertised names are
\* exactly the names with a branch in call_tool, and a call of an advertised
\* name with every required parameter populated never takes the final else.
C5_CatalogMatchesBranches ==
  /\ Len(list_tools) = 18
  /\ Cardinality(ToolNames) = 18
  /\ ToolNames = Branches
  /\ \A t \in CallTasks :
       task[t].pc # "idle" =>
         /\ task[t].cls = "else" => task[t].name \notin ToolNames
         /\ (/\ task[t].name \in ToolNames
             /\ \A key \in Required(task[t].name) :
                  ~MissingOrEmpty(task[t].arguments, key))
            => /\ task[t].cls # "else"
               /\ task[t].text # <<"Unknown tool: ", task[t].name>>

\* C5 witness: a call of an advertised tool with every required parameter
\* populated has returned a result.
C5_Witness ==
  \E t \in Returned :
    /\ task[t].name = "validate_excel_range"
    /\ \A key \in Required(task[t].name) : ~MissingOrEmpty(task[t].arguments, key)
    /\ task[t].cls = "result"
    /\ Len(task[t].calls) = 1

\* The call passed the required-parameter check of a branch.
PassedCheck(t) == task[t].name \in ToolNames /\ task[t].cls # "check"

\* Every parameter of the tool's "required" list is in the bag, non-empty.
AllRequiredPopulated(t) ==
  /\ task[t].name \in ToolNames
  /\ \A key \in Required(task[t].name) : ~MissingOrEmpty(task[t].arguments, key)

\* The validation of apply_formula returned without an "error" entry.
ValidationPassed(o) == ~o.raised /\ "error" \notin o.keys

\* C6 as stated: every call of a recognized tool that passes the
\* required-parameter check (stated for the calls with every required
\* parameter populated) makes exactly one backend operation call.
C6_ExactlyOneBackendCall ==
  \A t \in Returned :
    (PassedCheck(t) /\ AllRequiredPopulated(t)) => Len(task[t].calls) = 1

\* C6 amended: every recognized tool but apply_formula makes exactly one
\* backend call; apply_formula makes the validation call and then, exactly
\* when the validation returned without raising and without an "error"
\* entry, the application call.
C6_OneCallOrValidateThenApply ==
  \A t \in Returned :
    PassedCheck(t) =>
      IF task[t].name = "apply_formula"
      THEN /\ task[t].calls[1].op = "validate_formula_impl"
           /\ IF ValidationPassed(task[t].outs[1])
              THEN /\ Len(task[t].calls) = 2
                   /\ task[t].calls[2].op = "apply_formula_impl"
              ELSE Len(task[t].calls) = 1
      ELSE Len(task[t].calls) = 1

\* C6 witness: apply_formula returned after its two backend calls.
C6_Witness ==
  \E t \in Returned :
    /\ task[t].name = "apply_formula"
    /\ Len(task[t].calls) = 2
    /\ Len(task[t].outs) = 2

\* The kinds of result that are failures: the failed check, the final else,
\* a reported validation error, an exception caught at the call site or at
\* the outer boundary.
FailureClasses == {"check", "else", "reported", "site", "outer"}

BeginsWithError(text) == Len(text) > 0 /\ text[1] = "Error"

\* C7 as stated: every failure result of call_tool begins with "Error".
C7_FailuresBeginWithError ==
  \A t \in Returned :
    task[t].cls \in FailureClasses => BeginsWithError(task[t].text)

\* C7 amended: every failure result but the unknown-tool one begins with
\* "Error"; the unknown-tool result is "Unknown tool: <name>".
C7_FailuresButUnknownBeginWithError ==
  \A t \in Returned :
    /\ task[t].cls \in FailureClasses \ {"else"} => BeginsWithError(task[t].text)
    /\ task[t].cls = "else" => task[t].text = <<"Unknown tool: ", task[t].name>>

\* C7 witness: a call returned the text of an exception caught at its call
\* site.
C7_Witness ==
  \E t \in Returned :
    /\ task[t].cls = "site"
    /\ BackendRaised(t)
    /\ BeginsWithError(task[t].text)

\* C8 as stated: for every tool, a backend exception of a domain kind the
\* tool's except clause names is rendered "Error: " + message, and any other
\* one reaches the outer boundary and is rendered
\* "Error executing tool: " + message (stated for the calls with every
\* required parameter populated).
C8_RenderedByKind ==
  \A t \in Returned :
    (BackendRaised(t) /\ AllRequiredPopulated(t)) =>
      IF LastOut(t).kind \in Caught(task[t].name) \cap DomainKinds
      THEN task[t].text = <<"Error", ": ">> \o LastOut(t).msg
      ELSE /\ task[t].text = <<"Error", " executing tool: ">> \o LastOut(t).msg
           /\ task[t].cls = "outer"

\* C8 amended: as stated for every tool but read_data_from_excel, which
\* catches every exception at its call site and renders it
\* "Error reading data: " + message.
C8_RenderedByKindButReadData ==
  \A t \in Returned :
    BackendRaised(t) =>
      IF task[t].name = "read_data_from_excel"
      THEN /\ task[t].text = <<"Error", " reading data: ">> \o LastOut(t).msg
           /\ task[t].cls = "site"
      ELSE IF LastOut(t).kind \in Caught(task[t].name) \cap DomainKinds
      THEN /\ task[t].text = <<"Error", ": ">> \o LastOut(t).msg
           /\ task[t].cls = "site"
      ELSE /\ task[t].text = <<"Error", " executing tool: ">> \o LastOut(t).msg
           /\ task[t].cls = "outer"

\* C8 witness: create_workbook's backend raised a domain kind its except
\* clause does not name, and the call returned the outer boundary's text.
C8_Witness ==
  \E t \in Returned :
    /\ task[t].name = "create_workbook"
    /\ BackendRaised(t)
    /\ LastOut(t).kind = "ValidationError"
    /\ task[t].cls = "outer"

\* C9: for every advertised tool, call_tool rejects a call before the
\* backend exactly when a parameter of the schema's "required" list is
\* omitted or empty.
C9_RequiredExactlyEnforced ==
  \A t \in CallTasks :
    (task[t].pc # "idle" /\ task[t].name \in ToolNames) =>
      (task[t].cls = "check" /\ task[t].calls = << >>
       <=> \E key \in Required(task[t].name) : MissingOrEmpty(task[t].arguments, key))

\* C10: a backend operation of a tool call runs inside that call's turn of
\* the event loop: while it runs no other tool call has one in progress, and
\* when the call returns every operation it started has completed.
C10_CallsAreSynchronous ==
  \A t \in CallTasks :
    /\ task[t].pc = "calling" =>
         /\ running = [h |-> "call_tool", id |-> t]
         /\ \A u \in CallTasks \ {t} : task[u].pc = "idle"
    /\ task[t].pc = "returned" => Len(task[t].outs) = Len(task[t].calls)

\* C10 witness: a tool call's backend operation runs while a read_resource
\* call is suspended with its worker running.
C10_Witness ==
  \E t \in CallTasks : \E r \in ReadTasks :
    /\ task[t].pc = "calling"
    /\ rtask[r].pc = "awaiting"
    /\ worker[r].st = "running"

\* --------------------------------------------------------- read_resource

\* The text read_resource returns for a URI of another scheme: the ValueError
\* it raises is caught by its own outer handler.
InvalidSchemeText(uri) ==
  <<"Error", " reading resource: ", "Invalid URI scheme: ">> \o uri

\* The file a URI names does not exist: decoded and resolved, its path is not
\* the path of an entry of the root directory.
NamesMissingFile(uri) ==
  get_excel_path(unquote(Tail(uri)))
    \notin {EXCEL_FILES_PATH \o <<"/">> \o f : f \in dir}

\* C11: read_resource never raises. For a URI that does not start with
\* "excel://" it returns a definite error text, and the scheme is looked at
\* before the file system: the name is not decoded or resolved and the text
\* is the same whether or not the rest of the URI names an existing file.
\* For an "excel://" URI whose decoded, resolved file does not exist it
\* returns "Error: File not found: " and the decoded name.  In both cases the
\* request has returned without an await and no metadata worker was started.
C11_ReadResourceErrors ==
  \A r \in ReadTasks :
    rtask[r].pc # "idle" =>
      LET uri == rtask[r].uri IN
      /\ rtask[r].cls \in {"", "outer", "notfound", "result", "timeout"}
      /\ rtask[r].pc = "returned" => rtask[r].text # << >>
      /\ uri[1] # "excel://" =>
           /\ rtask[r].pc = "returned"
           /\ rtask[r].text = InvalidSchemeText(uri)
           /\ rtask[r].resolved = 0
           /\ worker[r].st = "none"
      /\ (uri[1] = "excel://" /\ NamesMissingFile(uri)) =>
           /\ rtask[r].pc = "returned"
           /\ rtask[r].text =
                <<"Error", ": File not found: ">> \o unquote(Tail(uri))
           /\ worker[r].st = "none"

\* An "excel://" URI with an escaped space that names no file was answered
\* with the decoded name and without a worker.
C11_Witness ==
  \E r \in ReadTasks :
    /\ rtask[r].pc = "returned"
    /\ rtask[r].uri = <<"excel://", "n", "%", "2", "0", "o", ".xlsx">>
    /\ rtask[r].text =
         <<"Error", ": File not found: ", "n", " ", "o", ".xlsx">>
    /\ rtask[r].cls = "notfound"
    /\ worker[r].st = "none"

\* -------------------------------------------------------- list_resources

\* The entries of the root directory that are spreadsheets by their name.
Workbooks == {f \in dir : f[Len(f)] \in {".xlsx", ".xls", ".xlsm"}}

\* The descriptors are exactly one for each spreadsheet of the directory and
\* none for another entry, with the percent-encoded name as URI and the name
\* as display name.
DescribesWorkbooks(items) ==
  /\ Len(items) = Cardinality(Workbooks)
  /\ \A i \in DOMAIN items : items[i].name \in Workbooks
  /\ \A f \in Workbooks :
       \E i \in DOMAIN items :
         /\ items[i].name = f
         /\ items[i].uri = <<"excel://">> \o quote(f)
  /\ dir = {<<"a", ".xlsx">>, <<"b", ".txt">>, <<"c", ".xlsm">>} =>
       {items[i].uri : i \in DOMAIN items}
         = {<<"excel://", "a", ".xlsx">>, <<"excel://", "c", ".xlsm">>}
  /\ \A i \in DOMAIN items :
       items[i].name = <<"b", " ", "%", "2", "0", ".xls">> =>
         items[i].uri
           = <<"excel://", "b", "%", "2", "0", "%", "2", "5", "2", "0", ".xls">>

\* C12 as stated: every list_resources call returns exactly one descriptor
\* for each entry of the root directory whose name ends with .xlsx, .xls or
\* .xlsm and none for any other entry.
C12_OneDescriptorPerWorkbook ==
  [][listed' # listed => DescribesWorkbooks(listed'.items)]_vars

\* C12 amended: a list_resources call for which os.listdir returned and
\* every spreadsheet name could be percent-encoded returns exactly one
\* descriptor for each entry whose name ends with .xlsx, .xls or .xlsm and
\* none for any other; a call for which os.listdir raised, or for which
\* encoding a spreadsheet name raised, returns the empty list.
C12_OneDescriptorPerWorkbookOrEmpty ==
  [][listed' # listed =>
       IF listed'.st = "listdir raised"
       THEN listed'.items = << >>
       ELSE IF \E f \in Workbooks : Undecodable \in {f[i] : i \in DOMAIN f}
       THEN listed'.st = "quote raised" /\ listed'.items = << >>
       ELSE listed'.st = "ok" /\ DescribesWorkbooks(listed'.items)]_vars

\* The directory a.xlsx, b.txt, c.xlsm was listed as two descriptors.
C12_Witness ==
  /\ listed.st = "ok"
  /\ {listed.entries[i] : i \in DOMAIN listed.entries}
       = {<<"a", ".xlsx">>, <<"b", ".txt">>, <<"c", ".xlsm">>}
  /\ Len(listed.items) = 2
  /\ dir = {<<"a", ".xlsx">>, <<"b", ".txt">>, <<"c", ".xlsm">>}

\* ---------------------------------------------------- read_data_from_excel

\* C13: a read_data_from_excel call with filepath and sheet_name present
\* whose backend call returned renders an empty result as exactly
\* "No data found in specified range", and a result of n >= 1 rows as the
\* text forms of the rows in the order returned, with a newline between
\* two rows and none after the last.
C13_ReadDataRendering ==
  \A t \in Returned :
    (/\ task[t].name = "read_data_from_excel"
     /\ {"filepath", "sheet_name"} \subseteq DOMAIN task[t].arguments
     /\ Len(task[t].outs) = 1
     /\ ~task[t].outs[1].raised) =>
      LET rows == task[t].outs[1].rows
          n == Len(rows)
          text == task[t].text
      IN IF n = 0
         THEN text = <<"No data found in specified range">>
         ELSE /\ Len(text) = 4 * n - 1
              /\ \A i \in 1..n :
                   /\ SubSeq(text, 4 * i - 3, 4 * i - 1) = <<"{", rows[i][1], "}">>
                   /\ i < n => text[4 * i] = "\n"

\* Two rows were returned and rendered in their order.
C13_Witness ==
  \E t \in Returned :
    /\ task[t].name = "read_data_from_excel"
    /\ Len(task[t].outs) = 1
    /\ task[t].outs[1].rows = <<<<"r1">>, <<"r2">>>>
    /\ task[t].text = <<"{", "r1", "}", "\n", "{", "r2", "}">>

\* ---------------------------------------------------- validate_excel_range

\* C14: validate_excel_range passes the backend one range token: start_cell,
\* ":" and end_cell when end_cell is present and non-empty, start_cell alone
\* when end_cell is absent or empty.  The token is part of the one backend
\* call, which is made only after the required-parameter check passed: a
\* call that failed the check made no backend call, and a call that reached
\* the backend had sheet_name and start_cell populated.
C14_RangeToken ==
  \A t \in CallTasks :
    (task[t].pc # "idle" /\ task[t].name = "validate_excel_range") =>
      LET a == task[t].arguments
          calls == task[t].calls
      IN /\ Len(calls) <= 1
         /\ task[t].cls = "check" => calls = << >>
         /\ calls # << >> =>
              /\ ~MissingOrEmpty(a, "sheet_name")
              /\ ~MissingOrEmpty(a, "start_cell")
              /\ calls[1].op = "validate_range_impl"
              /\ Len(calls[1].args) = 3
              /\ calls[1].args[3] =
                   IF "end_cell" \in DOMAIN a /\ Len(a.end_cell.v) > 0
                   THEN PyStr(a.start_cell.v \o <<":">> \o a.end_cell.v)
                   ELSE a.start_cell

\* A returned call with end_cell supplied passed the token "B2:C3".
C14_Witness ==
  \E t \in Returned :
    /\ task[t].name = "validate_excel_range"
    /\ "end_cell" \in DOMAIN task[t].arguments
    /\ Len(task[t].calls) = 1
    /\ task[t].calls[1].args[3] = PyStr(<<"B2", ":", "C3">>)

\* ------------------------------------------------------ optional arguments

\* C16: when an optional argument is absent the backend receives the default:
\* write_headers = true and start_cell = "A1" for write_data_to_excel,
\* preview_only = false and start_cell = "A1" for read_data_from_excel,
\* agg_func = "mean" for create_pivot_table, shift_direction = "up" for
\* delete_range; when the argument is present the backend receives the
\* supplied value unchanged.
C16_DefaultsOrSupplied ==
  \A t \in CallTasks :
    (task[t].pc # "idle" /\ task[t].calls # << >>) =>
      LET a == task[t].arguments
          args == task[t].calls[1].args
          Passed(key, pos, default) ==
            args[pos] = IF key \in DOMAIN a THEN a[key] ELSE default
      IN CASE task[t].name = "write_data_to_excel" ->
                /\ Passed("start_cell", 4, PyStr(<<"A1">>))
                /\ Passed("write_headers", 5, PyTrue)
           [] task[t].name = "read_data_from_excel" ->
                /\ Passed("start_cell", 3, PyStr(<<"A1">>))
                /\ Passed("preview_only", 5, PyFalse)
           [] task[t].name = "create_pivot_table" ->
                Passed("agg_func", 7, PyStr(<<"mean">>))
           [] task[t].name = "delete_range" ->
                Passed("shift_direction", 5, PyStr(<<"up">>))
           [] OTHER -> TRUE

\* write_data_to_excel was called without start_cell and write_headers and
\* the backend received "A1" and true.
C16_Witness ==
  \E t \in CallTasks :
    /\ task[t].pc = "calling"
    /\ task[t].name = "write_data_to_excel"
    /\ DOMAIN task[t].arguments \cap {"start_cell", "write_headers"} = {}
    /\ task[t].calls[1].args[4] = PyStr(<<"A1">>)
    /\ task[t].calls[1].args[5] = PyTrue

\* ------------------------------------------------------------ get_excel_path

\* The path of a filename: itself when it begins with "/", else the root
\* directory, "/" and the filename.
PathOf(filename) ==
  IF Len(filename) > 0 /\ filename[1] = "/" THEN filename
  ELSE <<".", "/", "excel_files", "/">> \o filename

\* C15: get_excel_path returns an absolute filename unchanged and a
\* non-absolute one joined under the root directory, with no error outcome.
\* A call_tool request for a recognized tool and a read_resource request for
\* an "excel://" URI apply it exactly once to the path argument (no request
\* applies it more than once), and every backend call of the request, the
\* metadata worker included, receives that resolved path unmodified.
C15_ResolvedOnceAndPassedOn ==
  /\ \A t \in CallTasks :
       task[t].pc # "idle" =>
         LET a == task[t].arguments
             filename == IF "filepath" \in DOMAIN a THEN a.filepath.v ELSE << >>
         IN /\ task[t].resolved = IF task[t].name \in ToolNames THEN 1 ELSE 0
            /\ \A i \in DOMAIN task[t].calls :
                 task[t].calls[i].args[1] = PyStr(PathOf(filename))
  /\ \A r \in ReadTasks :
       rtask[r].pc # "idle" =>
         /\ rtask[r].resolved = IF rtask[r].uri[1] = "excel://" THEN 1 ELSE 0
         /\ rtask[r].resolved = 1 => rtask[r].path = PathOf(rtask[r].file)
         /\ worker[r].st # "none" => worker[r].path = PathOf(rtask[r].file)

\* apply_formula made both backend calls with the absolute path it was given
\* while a read_resource request with a resolved relative path is awaiting.
C15_Witness ==
  /\ \E t \in CallTasks :
       /\ task[t].name = "apply_formula"
       /\ Len(task[t].calls) = 2
       /\ task[t].arguments.filepath = PyStr(<<"/", "data", "/", "book.xlsx">>)
       /\ task[t].calls[2].args[1] = PyStr(<<"/", "data", "/", "book.xlsx">>)
  /\ \E r \in ReadTasks :
       /\ rtask[r].pc = "awaiting"
       /\ worker[r].path = <<".", "/", "excel_files", "/", "a", ".xlsx">>

\* ------------------------------------------------------------ apply_formula

\* C17: in apply_formula the application operation is invoked only as the
\* second backend call, after the validation returned without raising and
\* without an "error" entry; when the validation raised or reported an
\* error the response is an error text and the application operation was
\* not invoked.
C17_ApplyOnlyAfterValidation ==
  \A t \in CallTasks :
    (task[t].pc # "idle" /\ task[t].name = "apply_formula") =>
      LET calls == task[t].calls
          outs == task[t].outs
          Applied == \E i \in DOMAIN calls : calls[i].op = "apply_formula_impl"
      IN /\ \A i \in DOMAIN calls :
              calls[i].op = "apply_formula_impl" =>
                /\ i = 2
                /\ calls[1].op = "validate_formula_impl"
                /\ Len(outs) >= 1
                /\ ~outs[1].raised
                /\ "error" \notin outs[1].keys
         /\ (Len(outs) >= 1 /\ (outs[1].raised \/ "error" \in outs[1].keys)) =>
              /\ task[t].pc = "returned"
              /\ Len(task[t].text) > 0
              /\ task[t].text[1] = "Error"
              /\ ~Applied

\* A validation that reported an error ended the call with an error text
\* and one backend call.
C17_Witness ==
  \E t \in Returned :
    /\ task[t].name = "apply_formula"
    /\ Len(task[t].outs) = 1
    /\ "error" \in task[t].outs[1].keys
    /\ Len(task[t].calls) = 1
    /\ task[t].text = <<"Error", ": ">> \o ResultError

\* ------------------------------------------------- the workers of read_resource

\* C18: whenever a read_resource slot has no call in progress (none started,
\* or the call has returned) its metadata worker is not running: a call
\* starts a worker only on its way to the await, one per call, and the worker
\* has finished when the call returns, after a result and after a timeout.
C18_NoWorkerOutlivesItsCall ==
  \A r \in ReadTasks :
    /\ rtask[r].pc \in {"idle", "returned"} => worker[r].st # "running"
    /\ worker[r].st # "none" =>
         /\ rtask[r].pc \in {"awaiting", "shutdown", "returned"}
         /\ rtask[r].resolved = 1
         /\ worker[r].path = rtask[r].path
    /\ (rtask[r].pc = "returned" /\ rtask[r].cls \in {"result", "timeout"}) =>
         worker[r].st = "done"

\* A call that timed out has returned, and its worker has finished.
C18_Witness ==
  \E r \in ReadTasks :
    /\ rtask[r].pc = "returned"
    /\ rtask[r].timedout
    /\ rtask[r].text = TimeoutText
    /\ worker[r].st = "done"

\* ------------------------------------------------------------ the URI round trip

\* C19: a read_resource request for the URI of a descriptor that
\* list_resources returned decodes the URI to exactly the descriptor's
\* filename and resolves it to the path of that file under the root
\* directory; when the file is still in the directory the request is not
\* answered with "File not found" or an invalid-scheme error but goes on to
\* read the workbook.
C19_UriRoundTrip ==
  [][\A r \in ReadTasks : \A i \in DOMAIN listed.items :
       (/\ rtask[r].pc = "idle"
        /\ rtask'[r].pc # "idle"
        /\ rtask'[r].uri = listed.items[i].uri) =>
          LET f == listed.items[i].name IN
          /\ rtask'[r].file = f
          /\ rtask'[r].path = <<".", "/", "excel_files", "/">> \o f
          /\ rtask'[r].cls # "outer"
          /\ f \in dir =>
               /\ rtask'[r].pc = "awaiting"
               /\ rtask'[r].cls # "notfound"
               /\ worker'[r].st = "running"]_vars

\* The listed file "b %20.xls" was requested by its descriptor's URI and,
\* still present, is being read.
C19_Witness ==
  \E r \in ReadTasks : \E i \in DOMAIN listed.items :
    /\ rtask[r].pc = "awaiting"
    /\ rtask[r].uri = listed.items[i].uri
    /\ rtask[r].uri
         = <<"excel://", "b", "%", "2", "0", "%", "2", "5", "2", "0", ".xls">>
    /\ rtask[r].file = <<"b", " ", "%", "2", "0", ".xls">>
    /\ rtask[r].file \in dir

====
